---- MODULE Spec2Model ----
(***************************************************************************)
(* Model of the two Flask services reddit/src/app.py and venmo/src/app.py:  *)
(* the with_db_connection decorator (acquire, cursor, work, commit or       *)
(* rollback, close), get_db_connection with its request-context cache g,    *)
(* the reddit teardown close_db_connection, the route handlers run through  *)
(* the decorator (create_post, get_post, delete_post, post_comment,         *)
(* edit_comment, venmo's get_users), the join-row aggregation loop of       *)
(* get_all_post and get_post, and the pagination arithmetic of get_users.   *)
(*                                                                          *)
(* A "request" is one Flask application context: g lives as long as the    *)
(* context does, and any number of decorated calls may run inside it        *)
(* before the context is popped.                                            *)
(*                                                                          *)
(* venmo defines get_users twice on one endpoint name (lines 77-79 and      *)
(* 92-94); Flask refuses the second registration with AssertionError, so   *)
(* the module as written stops at import and serves no request. The venmo   *)
(* part of the model is venmo's functions as they run when they are called  *)
(* inside an application context, both definitions of get_users included.   *)
(*                                                                          *)
(* Three specifications: Spec (the services under concurrent requests),     *)
(* SpecAgg (the aggregation loop on every join result within the bounds),   *)
(* SpecPage (get_users on every query string within the bounds).            *)
(***************************************************************************)
EXTENDS Integers, Sequences, FiniteSets, TLC

\* ------------------------------------------------------------------ bounds
NumReqs == 2   \* concurrent request contexts
MaxId   == 2   \* ids 0..MaxId in the join rows given to the aggregation loop
MaxRows == 3   \* length of a join result given to the aggregation loop
MaxPostArg == 2 \* post ids 1..MaxPostArg named in request paths
MaxArgLen == 2 \* length of a pageSize or pageNumber string in the query
MaxCommentArg == 2 \* comment ids 1..MaxCommentArg named in request paths

VARIABLES
  app,           \* which service runs: "reddit" or "venmo"
  extras_loaded, \* whether the process has imported psycopg2.extras (venmo never does itself)
  pc,            \* pc[r]: where request r stands: "idle", in decorated_function
                 \* ("acquired", "work", "commit", "rollback", "finally"), "over", "done"
  g,             \* g[r]: the connection handle cached as g.conn, NoConn when 'conn' not in g
  conn,          \* conn[r]: decorated_function's local conn
  conn_state,    \* conn_state[c]: "unused", "open" or "closed"
  opened_by,     \* opened_by[c]: the request whose psycopg2.connect returned handle c (0: none)
  tx,            \* tx[c]: the statements executed on connection c and not yet committed
  posts,         \* committed rows of relation posts
  comments,      \* committed rows of relation comments
  post_seq,      \* next value of posts.id's sequence
  comment_seq,   \* next value of comments.id's sequence
  handler,       \* handler[r]: the route handler f of the current call
  args,          \* args[r]: the path arguments and payload f gets in the current call
  response,      \* response[r]: decorated_function's local response (what f returned)
  resp,          \* resp[r]: what decorated_function returned
  exc,           \* exc[r]: the exception in flight or propagated, "" when none
  work_raised,   \* work_raised[r]: f raised in the current call
  issued,        \* issued[r]: the writes f executed in the current call
  commits,       \* commits[r]: conn.commit() calls of the current call
  commit_ok,     \* commit_ok[r]: the current call's conn.commit() returned normally
  rollbacks,     \* rollbacks[r]: conn.rollback() calls of the current call
  attempts,      \* attempts[r]: psycopg2.connect calls of the current call
  opened,        \* opened[r]: connections opened by request r
  closes,        \* closes[r]: conn.close() calls made by request r (decorator and teardown)
  agg_rows,      \* the join result handed to the aggregation loop
  agg_out,       \* the aggregation run made on agg_rows
  page_in,       \* the query string and store behaviour given to get_users
  page_out       \* the run of get_users made on page_in

session_vars == <<app, extras_loaded, pc, g, conn, conn_state, opened_by, tx, posts,
                  comments, post_seq, comment_seq, handler, args, response, resp, exc,
                  work_raised, issued, commits, commit_ok, rollbacks, attempts,
                  opened, closes>>
agg_vars == <<agg_rows, agg_out>>
page_vars == <<page_in, page_out>>
pure_vars == <<agg_vars, page_vars>>
vars == <<session_vars, pure_vars>>

Reqs == 1..NumReqs
Conns == 1..NumReqs
NoConn == 0
Apps == {"reddit", "venmo"}
NULL == -1

\* ------------------------------------------------------------- responses
\* jsonify(body), status
Resp(status, error, body) == [status |-> status, error |-> error, body |-> body]
NoResp == Resp(0, "", <<>>)

\* ------------------------------------------------- the store's relations
\* A row of posts: id, and title standing for the scalar columns upvotes, title,
\* link, username. A row of comments: id, post_id, text; its columns upvotes and
\* username, which no statement writes after the INSERT, are left out.
PostRow(id, title) == [id |-> id, title |-> title]
CommentRow(id, post_id, text) == [id |-> id, post_id |-> post_id, text |-> text]

\* A row of  SELECT p.id, p.upvotes, p.title, p.link, p.username, c.id, c.upvotes,
\* c.text, c.username FROM posts p LEFT JOIN comments c ON p.id = c.post_id :
\* pid is row[0], title is row[1..4], cid is row[5], text is row[6..8].
\* An outer-join miss has cid = NULL and text = "".
JoinRow(pid, title, cid, text) == [pid |-> pid, title |-> title, cid |-> cid, text |-> text]

\* Python's truth value of a column value that is None or an int:  if row[5]:
Truthy(v) == v # NULL /\ v # 0

\* ------------------------------------------------- the aggregation loop
\* posts_dict is a Python dict: it keeps its keys in insertion order, so it is a
\* sequence of the values, each holding its key as id.
DictHas(d, k) == \E i \in 1..Len(d) : d[i].id = k
DictIdx(d, k) == CHOOSE i \in 1..Len(d) : d[i].id = k

\* posts_dict[post_id] = {"id": post_id, ..., "comments": []}
InsertPost(d, row) == Append(d, [id |-> row.pid, title |-> row.title, comments |-> <<>>])

\* posts_dict[post_id]["comments"].append(comment)
PrependComment(cs, row) == <<[id |-> row.cid, text |-> row.text]>> \o cs
AppendComment(cs, row) == Append(cs, [id |-> row.cid, text |-> row.text])

\* if row[5]:
CommentPresent(row) == Truthy(row.cid)

\* One iteration of  for row in rows:
AggStep(d, row) ==
  LET d1 == IF ~DictHas(d, row.pid) THEN InsertPost(d, row) ELSE d
      i  == DictIdx(d1, row.pid)
  IN  IF CommentPresent(row)
      THEN [d1 EXCEPT ![i].comments = AppendComment(@, row)]
      ELSE d1

RECURSIVE AggLoop(_, _)
AggLoop(d, rows) ==
  IF rows = <<>> THEN d ELSE AggLoop(AggStep(d, Head(rows)), Tail(rows))

\* if not rows:
NoRowsNever(rows) == FALSE
NoRowsAll(rows) == rows = <<>>
NoRowsOne(rows) == rows = <<>>

\* get_all_post, from rows = cursor.fetchall() on
get_all_post(rows) ==
  IF NoRowsAll(rows)
  THEN Resp(404, "No post not found", <<>>)
  ELSE Resp(200, "", AggLoop(<<>>, rows))

\* get_post, from rows = cursor.fetchall() on; rows are the join rows with p.id = post_id
get_post(rows) ==
  IF NoRowsOne(rows)
  THEN Resp(404, "No post not found with id", <<>>)
  ELSE Resp(200, "", AggLoop(<<>>, rows))

\* WHERE p.id = %s
WherePostId(rows, post_id) == SelectSeq(rows, LAMBDA row : row.pid = post_id)

\* ------------------------------------------------- aggregation runs
Ids == 0..MaxId
TitleOf(pid) == IF pid = 0 THEN "T0" ELSE "T"
JoinRows == {JoinRow(p, TitleOf(p), NULL, "") : p \in Ids}
            \cup {JoinRow(p, TitleOf(p), c, "hi") : p \in Ids, c \in Ids}
RowSeqs == UNION {[1..n -> JoinRows] : n \in 0..MaxRows}
NoOut == [h |-> "none", post_id |-> NULL, resp |-> NoResp]

InitAgg == agg_rows \in RowSeqs /\ agg_out = NoOut
IdleAgg == agg_rows = <<>> /\ agg_out = NoOut

AggGetAllPost ==
  /\ agg_out = NoOut
  /\ agg_out' = [h |-> "get_all_post", post_id |-> NULL, resp |-> get_all_post(agg_rows)]
  /\ UNCHANGED <<agg_rows, session_vars, page_vars>>

AggGetPost ==
  /\ agg_out = NoOut
  /\ \E post_id \in Ids :
       agg_out' = [h |-> "get_post", post_id |-> post_id,
                   resp |-> get_post(WherePostId(agg_rows, post_id))]
  /\ UNCHANGED <<agg_rows, session_vars, page_vars>>

NextAgg == AggGetAllPost \/ AggGetPost

\* ------------------------------------------------- route handlers (the work f)
\* What f(cursor, ...) did: returned response or raised exc, after executing writes.
HRet(rv, writes) ==
  [raised |-> FALSE, exc |-> "", response |-> rv, writes |-> writes]
HRaise(e, writes) ==
  [raised |-> TRUE, exc |-> e, response |-> NoResp, writes |-> writes]

\* The request inputs. fields: the JSON body's required fields are absent
\* ("missing": .get gives None), blank ("empty") or given ("ok"). fail: where the
\* store fails during f: at cursor.execute, at the fetch that follows it
\* (cursor.fetchone or cursor.fetchall), or nowhere.
Fields == {"missing", "empty", "ok"}
Fails == {"none", "execute", "fetch"}

\* What cursor.fetchone() gives create_post after INSERT ... RETURNING id, upvotes:
\* the row of two columns, None, or a row of one column
Returnings == {"row", "norow", "short"}
PostIds == 1..MaxPostArg
CommentIds == 1..MaxCommentArg

\* What the request gives f: the kwargs <int:post_id> and <int:comments_id> (NULL
\* when the route has no such part) and the state of the required fields of
\* request.get_json() ("none" when f reads no payload)
Args(post_id, comments_id, fields) ==
  [post_id |-> post_id, comments_id |-> comments_id, fields |-> fields]
NoArgs == Args(NULL, NULL, "none")

\* create_post: post_seq is the id the INSERT's RETURNING gives
create_post(fields, fail, ret, pseq) ==
  IF fields = "missing" THEN HRaise("AttributeError", <<>>)
  ELSE IF fields = "empty"
  THEN HRet(Resp(400, "Title, link, username are required", <<>>), <<>>)
  ELSE IF fail = "execute" THEN HRaise("StoreError", <<>>)
  ELSE LET w == [op |-> "ins_post", row |-> PostRow(pseq, "T")]
       IN  IF fail = "fetch" THEN HRaise("StoreError", <<w>>)
           ELSE IF ret # "row"   \* new_post_data is None or len(new_post_data) < 2
           THEN HRet(Resp(500, "Failed to create post, no data returned", <<>>), <<w>>)
           ELSE HRet(Resp(201, "", <<PostRow(pseq, "T")>>), <<w>>)

\* post_comment
post_comment(post_id, fields, fail, cseq) ==
  IF fields # "ok"
  THEN HRet(Resp(400, "Text, or username field not provided", <<>>), <<>>)
  ELSE IF fail = "execute" THEN HRaise("StoreError", <<>>)
  ELSE LET w == [op |-> "ins_comment", row |-> CommentRow(cseq, post_id, "hi")]
       IN  IF fail = "fetch" THEN HRaise("StoreError", <<w>>)
           ELSE IF Truthy(cseq)
           THEN HRet(Resp(201, "", <<CommentRow(cseq, post_id, "hi")>>), <<w>>)
           ELSE HRet(Resp(500, "Failed to create comment.", <<>>), <<w>>)

\* delete_post: cursor.execute(sql, (post_id)) hands psycopg2 an int where it
\* indexes a sequence of parameters, so execute raises before any statement runs
delete_post(post_id) == HRaise("TypeError", <<>>)

\* edit_comment: text is the payload's text, cs the comments the UPDATE sees.
\* The validation answer carries no status code, so Flask sends it as 200.
\* The UPDATE touches the rows with this post_id and this id (the primary key).
edit_comment(post_id, comments_id, fields, fail, text, cs) ==
  IF fields # "ok"
  THEN HRet(Resp(200, "Text fields are required", <<>>), <<>>)
  ELSE IF fail = "execute" THEN HRaise("StoreError", <<>>)
  ELSE LET hit == {c \in cs : c.post_id = post_id /\ c.id = comments_id}
           new == CommentRow(comments_id, post_id, text)
           ws  == IF hit = {} THEN <<>> ELSE <<[op |-> "upd_comment", row |-> new]>>
       IN  IF fail = "fetch" THEN HRaise("StoreError", ws)
           ELSE IF hit # {}
           THEN HRet(Resp(200, "", <<new>>), ws)
           ELSE HRet(Resp(404, "Comment not found", <<>>), <<>>)

\* The queries name no ORDER BY: cursor.fetchall() gives the rows of the result in
\* an order the store chooses. Orders(S) is every sequence holding each row once.
Orders(S) ==
  {f \in [1..Cardinality(S) -> S] :
     \A i, j \in 1..Cardinality(S) : i # j => f[i] # f[j]}

\* The rows of posts p LEFT JOIN comments c ON p.id = c.post_id over ps and cs
JoinRowSet(ps, cs) ==
  {JoinRow(m[1].id, m[1].title, m[2].id, m[2].text) :
     m \in {x \in ps \X cs : x[2].post_id = x[1].id}}
  \cup {JoinRow(p.id, p.title, NULL, "") :
          p \in {q \in ps : \A c \in cs : c.post_id # q.id}}

\* What fetchall() can give for the join: its rows in any order
LeftJoin(ps, cs) == Orders(JoinRowSet(ps, cs))

\* ... WHERE p.id = %s: the rows of post_id in any order
LeftJoinWhere(ps, cs, post_id) ==
  Orders({row \in JoinRowSet(ps, cs) : row.pid = post_id})

\* get_post as a unit of work: the query gave rows, then the aggregation
get_post_work(fail, rows) ==
  IF fail \in {"execute", "fetch"} THEN HRaise("StoreError", <<>>)
  ELSE HRet(get_post(rows), <<>>)

\* get_all_post as a unit of work: the query gave rows, then the aggregation
get_all_post_work(fail, rows) ==
  IF fail \in {"execute", "fetch"} THEN HRaise("StoreError", <<>>)
  ELSE HRet(get_all_post(rows), <<>>)

\* What fetchall() can give for SELECT * from comments WHERE post_id = %s
CommentsWhere(cs, post_id) == Orders({c \in cs : c.post_id = post_id})

\* get_comments_for_post: the query gave rows
get_comments_for_post(fail, rows) ==
  IF fail \in {"execute", "fetch"} THEN HRaise("StoreError", <<>>)
  ELSE IF rows = <<>>
  THEN HRet(Resp(404, "No comments with post_id", <<>>), <<>>)
  ELSE HRet(Resp(200, "", rows), <<>>)

\* get_users as venmo defines it first (lines 77-86): every active user, no paging
get_users_unpaged(fail) ==
  IF fail \in {"execute", "fetch"} THEN HRaise("StoreError", <<>>)
  ELSE HRet(Resp(200, "", <<>>), <<>>)

\* get_users (venmo): int() of the query parameters, the page query, the count query
default_page_size == 5
default_page_number == 1

\* A query parameter as request.args holds it: absent, or a string of characters
\* (the tab stands for the whitespace characters int() strips, u001c for the
\* separators U+001C..U+001F, which it does not)
ArgChars == {"-", "+", "a", "0", "3", "5", "\t", "u001c", "_"}
Missing == [given |-> FALSE, text |-> <<>>]
RawArgs ==
  {Missing} \cup
  {[given |-> TRUE, text |-> t] : t \in UNION {[1..n -> ArgChars] : n \in 0..MaxArgLen}}

\* int(str): whitespace around the number is stripped; then an optional sign; then
\* decimal digits, with single underscores allowed between two digits and at most
\* int_max_str_digits of them; ValueError otherwise. A digit is any character of
\* Unicode's category Nd: the ASCII digits and those of the other scripts (named by
\* their code points, one row of ten per script, Unicode 14.0.0).
DecDigits == <<"0", "1", "2", "3", "4", "5", "6", "7", "8", "9">>
ScriptDigits ==
  <<
   <<"u0660", "u0661", "u0662", "u0663", "u0664",
     "u0665", "u0666", "u0667", "u0668", "u0669">>,
   <<"u06f0", "u06f1", "u06f2", "u06f3", "u06f4",
     "u06f5", "u06f6", "u06f7", "u06f8", "u06f9">>,
   <<"u07c0", "u07c1", "u07c2", "u07c3", "u07c4",
     "u07c5", "u07c6", "u07c7", "u07c8", "u07c9">>,
   <<"u0966", "u0967", "u0968", "u0969", "u096a",
     "u096b", "u096c", "u096d", "u096e", "u096f">>,
   <<"u09e6", "u09e7", "u09e8", "u09e9", "u09ea",
     "u09eb", "u09ec", "u09ed", "u09ee", "u09ef">>,
   <<"u0a66", "u0a67", "u0a68", "u0a69", "u0a6a",
     "u0a6b", "u0a6c", "u0a6d", "u0a6e", "u0a6f">>,
   <<"u0ae6", "u0ae7", "u0ae8", "u0ae9", "u0aea",
     "u0aeb", "u0aec", "u0aed", "u0aee", "u0aef">>,
   <<"u0b66", "u0b67", "u0b68", "u0b69", "u0b6a",
     "u0b6b", "u0b6c", "u0b6d", "u0b6e", "u0b6f">>,
   <<"u0be6", "u0be7", "u0be8", "u0be9", "u0bea",
     "u0beb", "u0bec", "u0bed", "u0bee", "u0bef">>,
   <<"u0c66", "u0c67", "u0c68", "u0c69", "u0c6a",
     "u0c6b", "u0c6c", "u0c6d", "u0c6e", "u0c6f">>,
   <<"u0ce6", "u0ce7", "u0ce8", "u0ce9", "u0cea",
     "u0ceb", "u0cec", "u0ced", "u0cee", "u0cef">>,
   <<"u0d66", "u0d67", "u0d68", "u0d69", "u0d6a",
     "u0d6b", "u0d6c", "u0d6d", "u0d6e", "u0d6f">>,
   <<"u0de6", "u0de7", "u0de8", "u0de9", "u0dea",
     "u0deb", "u0dec", "u0ded", "u0dee", "u0def">>,
   <<"u0e50", "u0e51", "u0e52", "u0e53", "u0e54",
     "u0e55", "u0e56", "u0e57", "u0e58", "u0e59">>,
   <<"u0ed0", "u0ed1", "u0ed2", "u0ed3", "u0ed4",
     "u0ed5", "u0ed6", "u0ed7", "u0ed8", "u0ed9">>,
   <<"u0f20", "u0f21", "u0f22", "u0f23", "u0f24",
     "u0f25", "u0f26", "u0f27", "u0f28", "u0f29">>,
   <<"u1040", "u1041", "u1042", "u1043", "u1044",
     "u1045", "u1046", "u1047", "u1048", "u1049">>,
   <<"u1090", "u1091", "u1092", "u1093", "u1094",
     "u1095", "u1096", "u1097", "u1098", "u1099">>,
   <<"u17e0", "u17e1", "u17e2", "u17e3", "u17e4",
     "u17e5", "u17e6", "u17e7", "u17e8", "u17e9">>,
   <<"u1810", "u1811", "u1812", "u1813", "u1814",
     "u1815", "u1816", "u1817", "u1818", "u1819">>,
   <<"u1946", "u1947", "u1948", "u1949", "u194a",
     "u194b", "u194c", "u194d", "u194e", "u194f">>,
   <<"u19d0", "u19d1", "u19d2", "u19d3", "u19d4",
     "u19d5", "u19d6", "u19d7", "u19d8", "u19d9">>,
   <<"u1a80", "u1a81", "u1a82", "u1a83", "u1a84",
     "u1a85", "u1a86", "u1a87", "u1a88", "u1a89">>,
   <<"u1a90", "u1a91", "u1a92", "u1a93", "u1a94",
     "u1a95", "u1a96", "u1a97", "u1a98", "u1a99">>,
   <<"u1b50", "u1b51", "u1b52", "u1b53", "u1b54",
     "u1b55", "u1b56", "u1b57", "u1b58", "u1b59">>,
   <<"u1bb0", "u1bb1", "u1bb2", "u1bb3", "u1bb4",
     "u1bb5", "u1bb6", "u1bb7", "u1bb8", "u1bb9">>,
   <<"u1c40", "u1c41", "u1c42", "u1c43", "u1c44",
     "u1c45", "u1c46", "u1c47", "u1c48", "u1c49">>,
   <<"u1c50", "u1c51", "u1c52", "u1c53", "u1c54",
     "u1c55", "u1c56", "u1c57", "u1c58", "u1c59">>,
   <<"ua620", "ua621", "ua622", "ua623", "ua624",
     "ua625", "ua626", "ua627", "ua628", "ua629">>,
   <<"ua8d0", "ua8d1", "ua8d2", "ua8d3", "ua8d4",
     "ua8d5", "ua8d6", "ua8d7", "ua8d8", "ua8d9">>,
   <<"ua900", "ua901", "ua902", "ua903", "ua904",
     "ua905", "ua906", "ua907", "ua908", "ua909">>,
   <<"ua9d0", "ua9d1", "ua9d2", "ua9d3", "ua9d4",
     "ua9d5", "ua9d6", "ua9d7", "ua9d8", "ua9d9">>,
   <<"ua9f0", "ua9f1", "ua9f2", "ua9f3", "ua9f4",
     "ua9f5", "ua9f6", "ua9f7", "ua9f8", "ua9f9">>,
   <<"uaa50", "uaa51", "uaa52", "uaa53", "uaa54",
     "uaa55", "uaa56", "uaa57", "uaa58", "uaa59">>,
   <<"uabf0", "uabf1", "uabf2", "uabf3", "uabf4",
     "uabf5", "uabf6", "uabf7", "uabf8", "uabf9">>,
   <<"uff10", "uff11", "uff12", "uff13", "uff14",
     "uff15", "uff16", "uff17", "uff18", "uff19">>,
   <<"u104a0", "u104a1", "u104a2", "u104a3", "u104a4",
     "u104a5", "u104a6", "u104a7", "u104a8", "u104a9">>,
   <<"u10d30", "u10d31", "u10d32", "u10d33", "u10d34",
     "u10d35", "u10d36", "u10d37", "u10d38", "u10d39">>,
   <<"u11066", "u11067", "u11068", "u11069", "u1106a",
     "u1106b", "u1106c", "u1106d", "u1106e", "u1106f">>,
   <<"u110f0", "u110f1", "u110f2", "u110f3", "u110f4",
     "u110f5", "u110f6", "u110f7", "u110f8", "u110f9">>,
   <<"u11136", "u11137", "u11138", "u11139", "u1113a",
     "u1113b", "u1113c", "u1113d", "u1113e", "u1113f">>,
   <<"u111d0", "u111d1", "u111d2", "u111d3", "u111d4",
     "u111d5", "u111d6", "u111d7", "u111d8", "u111d9">>,
   <<"u112f0", "u112f1", "u112f2", "u112f3", "u112f4",
     "u112f5", "u112f6", "u112f7", "u112f8", "u112f9">>,
   <<"u11450", "u11451", "u11452", "u11453", "u11454",
     "u11455", "u11456", "u11457", "u11458", "u11459">>,
   <<"u114d0", "u114d1", "u114d2", "u114d3", "u114d4",
     "u114d5", "u114d6", "u114d7", "u114d8", "u114d9">>,
   <<"u11650", "u11651", "u11652", "u11653", "u11654",
     "u11655", "u11656", "u11657", "u11658", "u11659">>,
   <<"u116c0", "u116c1", "u116c2", "u116c3", "u116c4",
     "u116c5", "u116c6", "u116c7", "u116c8", "u116c9">>,
   <<"u11730", "u11731", "u11732", "u11733", "u11734",
     "u11735", "u11736", "u11737", "u11738", "u11739">>,
   <<"u118e0", "u118e1", "u118e2", "u118e3", "u118e4",
     "u118e5", "u118e6", "u118e7", "u118e8", "u118e9">>,
   <<"u11950", "u11951", "u11952", "u11953", "u11954",
     "u11955", "u11956", "u11957", "u11958", "u11959">>,
   <<"u11c50", "u11c51", "u11c52", "u11c53", "u11c54",
     "u11c55", "u11c56", "u11c57", "u11c58", "u11c59">>,
   <<"u11d50", "u11d51", "u11d52", "u11d53", "u11d54",
     "u11d55", "u11d56", "u11d57", "u11d58", "u11d59">>,
   <<"u11da0", "u11da1", "u11da2", "u11da3", "u11da4",
     "u11da5", "u11da6", "u11da7", "u11da8", "u11da9">>,
   <<"u16a60", "u16a61", "u16a62", "u16a63", "u16a64",
     "u16a65", "u16a66", "u16a67", "u16a68", "u16a69">>,
   <<"u16ac0", "u16ac1", "u16ac2", "u16ac3", "u16ac4",
     "u16ac5", "u16ac6", "u16ac7", "u16ac8", "u16ac9">>,
   <<"u16b50", "u16b51", "u16b52", "u16b53", "u16b54",
     "u16b55", "u16b56", "u16b57", "u16b58", "u16b59">>,
   <<"u1d7ce", "u1d7cf", "u1d7d0", "u1d7d1", "u1d7d2",
     "u1d7d3", "u1d7d4", "u1d7d5", "u1d7d6", "u1d7d7">>,
   <<"u1d7d8", "u1d7d9", "u1d7da", "u1d7db", "u1d7dc",
     "u1d7dd", "u1d7de", "u1d7df", "u1d7e0", "u1d7e1">>,
   <<"u1d7e2", "u1d7e3", "u1d7e4", "u1d7e5", "u1d7e6",
     "u1d7e7", "u1d7e8", "u1d7e9", "u1d7ea", "u1d7eb">>,
   <<"u1d7ec", "u1d7ed", "u1d7ee", "u1d7ef", "u1d7f0",
     "u1d7f1", "u1d7f2", "u1d7f3", "u1d7f4", "u1d7f5">>,
   <<"u1d7f6", "u1d7f7", "u1d7f8", "u1d7f9", "u1d7fa",
     "u1d7fb", "u1d7fc", "u1d7fd", "u1d7fe", "u1d7ff">>,
   <<"u1e140", "u1e141", "u1e142", "u1e143", "u1e144",
     "u1e145", "u1e146", "u1e147", "u1e148", "u1e149">>,
   <<"u1e2f0", "u1e2f1", "u1e2f2", "u1e2f3", "u1e2f4",
     "u1e2f5", "u1e2f6", "u1e2f7", "u1e2f8", "u1e2f9">>,
   <<"u1e950", "u1e951", "u1e952", "u1e953", "u1e954",
     "u1e955", "u1e956", "u1e957", "u1e958", "u1e959">>,
   <<"u1fbf0", "u1fbf1", "u1fbf2", "u1fbf3", "u1fbf4",
     "u1fbf5", "u1fbf6", "u1fbf7", "u1fbf8", "u1fbf9">>
  >>
DigitRows == <<DecDigits>> \o ScriptDigits
DigitSet == {DigitRows[k][i] : k \in DOMAIN DigitRows, i \in DOMAIN DecDigits}
IsDigit(c) == c \in DigitSet
DigitVal(c) ==
  (CHOOSE i \in DOMAIN DecDigits : \E k \in DOMAIN DigitRows : DigitRows[k][i] = c) - 1
\* The characters int() strips, those without an escape named by their code
\* points: the Unicode whitespace characters but for the separators
\* U+001C..U+001F, which int() leaves in place (ValueError)
Whitespace ==
  {" ", "\t", "\n", "\r", "\f", "u000b",
   "u0085", "u00a0", "u1680", "u2000", "u2001", "u2002", "u2003", "u2004",
   "u2005", "u2006", "u2007", "u2008", "u2009", "u200a", "u2028", "u2029",
   "u202f", "u205f", "u3000"}
IsSpace(c) == c \in Whitespace
\* sys.int_info.default_max_str_digits: int() of more digits raises ValueError
int_max_str_digits == 4300
RECURSIVE DigitsVal(_)
DigitsVal(ds) ==
  IF ds = <<>> THEN 0
  ELSE 10 * DigitsVal(SubSeq(ds, 1, Len(ds) - 1)) + DigitVal(ds[Len(ds)])
RECURSIVE LStrip(_)
LStrip(t) == IF t # <<>> /\ IsSpace(Head(t)) THEN LStrip(Tail(t)) ELSE t
RECURSIVE RStrip(_)
RStrip(t) ==
  IF t # <<>> /\ IsSpace(t[Len(t)]) THEN RStrip(SubSeq(t, 1, Len(t) - 1)) ELSE t
Strip(t) == RStrip(LStrip(t))
IntOfStr(t) ==
  LET u      == Strip(t)
      signed == u # <<>> /\ u[1] \in {"-", "+"}
      ds     == IF signed THEN Tail(u) ELSE u
      wellformed ==
        /\ ds # <<>>
        /\ \A i \in DOMAIN ds : IsDigit(ds[i]) \/ ds[i] = "_"
        /\ IsDigit(ds[1]) /\ IsDigit(ds[Len(ds)])
        /\ \A i \in 1..(Len(ds) - 1) : ~(ds[i] = "_" /\ ds[i + 1] = "_")
      digits == SelectSeq(ds, IsDigit)
  IN  IF ~wellformed \/ Len(digits) > int_max_str_digits
      THEN [ok |-> FALSE, val |-> 0]
      ELSE [ok |-> TRUE,
            val |-> IF signed /\ u[1] = "-" THEN 0 - DigitsVal(digits)
                    ELSE DigitsVal(digits)]

\* int(request.args.get(name, default)): the default is an int already
IntArg(raw, default) ==
  IF raw.given THEN IntOfStr(raw.text) ELSE [ok |-> TRUE, val |-> default]

\* offset = (page_number - 1) * page_size
PageOffsetZeroBased(page_size, page_number) == page_number * page_size
PageOffsetShifted(page_size, page_number) == (page_number - 1) * page_size + 1
PageOffset(page_size, page_number) == (page_number - 1) * page_size

\* The statements get_users hands to cursor.execute
SelectPage(limit, offset) ==
  [sql |-> "SELECT * from users WHERE deleted_at IS NULL LIMIT %s OFFSET %s",
   limit |-> limit, offset |-> offset]
SelectCount ==
  [sql |-> "SELCT COUNT(*) FROM users WHERE deleted_at IS NULL",
   limit |-> NULL, offset |-> NULL]

\* get_users as it runs: what it returned or raised (res) and the statements it
\* handed to cursor.execute on the way (stmts). The count statement is no SQL
\* ('SELCT'): the store answers it with a syntax error, ProgrammingError.
get_users_run(size_raw, number_raw, fail) ==
  LET page_size   == IntArg(size_raw, default_page_size)
      page_number == IntArg(number_raw, default_page_number)
  IN  IF ~page_size.ok \/ ~page_number.ok \/ page_size.val <= 0 \/ page_number.val <= 0
      THEN [res   |-> HRet(Resp(400, "Invalid pagination parameters", <<>>), <<>>),
            stmts |-> <<>>]
      ELSE LET q == SelectPage(page_size.val, PageOffset(page_size.val, page_number.val))
           IN  IF fail \in {"execute", "fetch"}
               THEN [res |-> HRaise("StoreError", <<>>), stmts |-> <<q>>]
               ELSE [res |-> HRaise("ProgrammingError", <<>>), stmts |-> <<q, SelectCount>>]
get_users(size_raw, number_raw, fail) == get_users_run(size_raw, number_raw, fail).res

\* ------------------------------------------------- get_users runs
PageIns == [size : RawArgs, number : RawArgs, fail : Fails]
NoPage == [ran |-> FALSE, res |-> HRet(NoResp, <<>>), stmts |-> <<>>]

InitPage == page_in \in PageIns /\ page_out = NoPage
IdlePage ==
  /\ page_in = [size |-> Missing, number |-> Missing, fail |-> "none"]
  /\ page_out = NoPage

PageGetUsers ==
  /\ page_out = NoPage
  /\ LET run == get_users_run(page_in.size, page_in.number, page_in.fail)
     IN  page_out' = [ran |-> TRUE, res |-> run.res, stmts |-> run.stmts]
  /\ UNCHANGED <<page_in, session_vars, agg_vars>>

NextPage == PageGetUsers

\* ------------------------------------------------- the store's transactions
\* conn.commit(): the connection's pending statements reach the relations
CommitPosts(ps, t) ==
  ps \cup {t[i].row : i \in {j \in 1..Len(t) : t[j].op = "ins_post"}}
\* One pending statement on comments: the INSERT's row, or the UPDATE's new text
\* on the row with its id and post_id
ApplyCommentByPost(cs, w) ==
  IF w.op = "ins_comment" THEN cs \cup {w.row}
  ELSE IF w.op = "upd_comment"
  THEN {IF c.post_id = w.row.post_id
        THEN [c EXCEPT !.text = w.row.text] ELSE c : c \in cs}
  ELSE cs
ApplyComment(cs, w) ==
  IF w.op = "ins_comment" THEN cs \cup {w.row}
  ELSE IF w.op = "upd_comment"
  THEN {IF c.id = w.row.id /\ c.post_id = w.row.post_id
        THEN [c EXCEPT !.text = w.row.text] ELSE c : c \in cs}
  ELSE cs
RECURSIVE CommitComments(_, _)
CommitComments(cs, t) ==
  IF t = <<>> THEN cs ELSE CommitComments(ApplyComment(cs, Head(t)), Tail(t))
CountOp(t, op) == Cardinality({j \in 1..Len(t) : t[j].op = op})

\* conn.rollback() on connection c: its pending statements are discarded
RollbackAll(t, c) == [k \in DOMAIN t |-> <<>>]
Rollback(t, c) == [t EXCEPT ![c] = <<>>]

\* conn.close() on a connection in state st: psycopg2 closes an open connection
\* and does nothing on a closed one; it raises in neither case
CloseRaisesOnClosed(st) == st = "closed"
CloseRaises(st) == FALSE

\* ------------------------------------------------- get_db_connection
\* g.conn if 'conn' in g, NoConn otherwise
CachedConnShared(r) ==
  IF \E q \in Reqs : g[q] # NoConn
  THEN g[CHOOSE q \in Reqs : g[q] # NoConn]
  ELSE NoConn
CachedConn(r) == g[r]

\* venmo's connect call names psycopg2.extras.DictCursor, and venmo imports only
\* psycopg2: the name resolves only in a process that imported psycopg2.extras
ConnectArgsRaise == app = "venmo" /\ ~extras_loaded

FreshConn == CHOOSE c \in Conns : conn_state[c] = "unused"

\* ------------------------------------------------- with_db_connection
\* What the handlers can do in the present store state, over all request inputs
Outcomes ==
  IF app = "reddit"
  THEN {[h |-> "create_post", args |-> Args(NULL, NULL, f),
         res |-> create_post(f, x, t, post_seq)] :
           f \in Fields, x \in Fails, t \in Returnings}
       \cup {[h |-> "post_comment", args |-> Args(p, NULL, f),
               res |-> post_comment(p, f, x, comment_seq)] :
           p \in PostIds, f \in Fields, x \in Fails}
       \cup {[h |-> "delete_post", args |-> Args(p, NULL, "none"),
               res |-> delete_post(p)] : p \in PostIds}
       \cup UNION {{[h |-> "get_post", args |-> Args(p, NULL, "none"),
                      res |-> get_post_work(x, rows)] :
                  x \in Fails, rows \in LeftJoinWhere(posts, comments, p)} :
                p \in PostIds}
       \cup {[h |-> "get_all_post", args |-> NoArgs,
               res |-> get_all_post_work(x, rows)] :
           x \in Fails, rows \in LeftJoin(posts, comments)}
       \cup UNION {{[h |-> "get_comments_for_post", args |-> Args(p, NULL, "none"),
                      res |-> get_comments_for_post(x, rows)] :
                  x \in Fails, rows \in CommentsWhere(comments, p)} :
                p \in PostIds}
  ELSE {[h |-> "get_users", args |-> NoArgs, res |-> get_users(s, n, x)] :
           s \in RawArgs, n \in RawArgs, x \in Fails}
       \cup {[h |-> "get_users_unpaged", args |-> NoArgs,
               res |-> get_users_unpaged(x)] : x \in Fails}

\* The text of the payload request r sends to edit_comment: one text per request
EditText(r) == ToString(r)
EditOutcomes(r) ==
  IF app = "reddit"
  THEN {[h |-> "edit_comment", args |-> Args(p, c, f),
         res |-> edit_comment(p, c, f, x, EditText(r), comments)] :
           p \in PostIds, c \in CommentIds, f \in Fields, x \in Fails}
  ELSE {}

\* The branch taken when the try block raises: except Exception -> conn.rollback()
AfterRaiseCommit == "commit"
AfterRaise == "rollback"

\* The branch taken when f returned rv: conn.commit(), whatever rv is
AfterReturnByStatus(rv) == IF rv.status >= 400 THEN "rollback" ELSE "commit"
AfterReturn(rv) == "commit"

\* The value the try block returns: return response
ReturnedNoResp(r) == NoResp
Returned(r) == response[r]

\* The state conn.close() leaves the connection in
Closed == "closed"

\* The store when the service starts: empty, or holding what an earlier run of
\* reddit committed (one post with one comment, the sequences past their ids)
SeedPosts == {PostRow(1, "T")}
SeedComments == {CommentRow(1, 1, "hi")}

InitSession ==
  /\ app \in Apps
  /\ extras_loaded \in BOOLEAN
  /\ (app = "reddit" => extras_loaded = FALSE)
  /\ pc = [r \in Reqs |-> "idle"]
  /\ g = [r \in Reqs |-> NoConn]
  /\ conn = [r \in Reqs |-> NoConn]
  /\ conn_state = [c \in Conns |-> "unused"]
  /\ opened_by = [c \in Conns |-> 0]
  /\ tx = [c \in Conns |-> <<>>]
  /\ \/ /\ posts = {}
        /\ comments = {}
        /\ post_seq = 1
        /\ comment_seq = 1
     \/ /\ app = "reddit"
        /\ posts = SeedPosts
        /\ comments = SeedComments
        /\ post_seq = 2
        /\ comment_seq = 2
  /\ handler = [r \in Reqs |-> ""]
  /\ args = [r \in Reqs |-> NoArgs]
  /\ response = [r \in Reqs |-> NoResp]
  /\ resp = [r \in Reqs |-> NoResp]
  /\ exc = [r \in Reqs |-> ""]
  /\ work_raised = [r \in Reqs |-> FALSE]
  /\ issued = [r \in Reqs |-> <<>>]
  /\ commits = [r \in Reqs |-> 0]
  /\ commit_ok = [r \in Reqs |-> FALSE]
  /\ rollbacks = [r \in Reqs |-> 0]
  /\ attempts = [r \in Reqs |-> 0]
  /\ opened = [r \in Reqs |-> 0]
  /\ closes = [r \in Reqs |-> 0]

IdleSession ==
  /\ InitSession
  /\ app = "reddit"
  /\ posts = {}

store_vars == <<posts, comments, post_seq, comment_seq>>
conn_vars == <<g, conn_state, opened_by, tx, opened, closes>>

\* The locals of decorated_function before f has run
FreshFrame(r) ==
  /\ handler' = [handler EXCEPT ![r] = ""]
  /\ args' = [args EXCEPT ![r] = NoArgs]
  /\ response' = [response EXCEPT ![r] = NoResp]
  /\ work_raised' = [work_raised EXCEPT ![r] = FALSE]
  /\ issued' = [issued EXCEPT ![r] = <<>>]
  /\ commits' = [commits EXCEPT ![r] = 0]
  /\ commit_ok' = [commit_ok EXCEPT ![r] = FALSE]
  /\ rollbacks' = [rollbacks EXCEPT ![r] = 0]

\* decorated_function is entered
Enter(r) == FreshFrame(r)

\* The request context is live and no decorated call is running in it: none was
\* made yet ("idle"), or the last one returned or raised ("over")
Callable(r) == pc[r] \in {"idle", "over"}

\* conn = get_db_connection(): 'conn' in g, so g.conn is returned as it is
AcquireCached(r) ==
  /\ Callable(r)
  /\ CachedConn(r) # NoConn
  /\ Enter(r)
  /\ conn' = [conn EXCEPT ![r] = CachedConn(r)]
  /\ attempts' = [attempts EXCEPT ![r] = 0]
  /\ resp' = [resp EXCEPT ![r] = NoResp]
  /\ exc' = [exc EXCEPT ![r] = ""]
  /\ pc' = [pc EXCEPT ![r] = "acquired"]
  /\ UNCHANGED <<app, extras_loaded, conn_vars, store_vars, pure_vars>>

\* conn = get_db_connection(): psycopg2.connect returns a connection, kept as g.conn
AcquireConnect(r) ==
  /\ Callable(r)
  /\ CachedConn(r) = NoConn
  /\ ~ConnectArgsRaise
  /\ \E c \in Conns : conn_state[c] = "unused"
  /\ Enter(r)
  /\ LET c == FreshConn
     IN  /\ conn_state' = [conn_state EXCEPT ![c] = "open"]
         /\ opened_by' = [opened_by EXCEPT ![c] = r]
         /\ g' = [g EXCEPT ![r] = c]
         /\ conn' = [conn EXCEPT ![r] = c]
  /\ opened' = [opened EXCEPT ![r] = @ + 1]
  /\ attempts' = [attempts EXCEPT ![r] = 1]
  /\ resp' = [resp EXCEPT ![r] = NoResp]
  /\ exc' = [exc EXCEPT ![r] = ""]
  /\ pc' = [pc EXCEPT ![r] = "acquired"]
  /\ UNCHANGED <<app, extras_loaded, tx, closes, store_vars, pure_vars>>

\* conn = get_db_connection(): psycopg2.connect raises OperationalError, None is
\* returned, and decorated_function returns the 500 response
AcquireFails(r) ==
  /\ Callable(r)
  /\ CachedConn(r) = NoConn
  /\ ~ConnectArgsRaise
  /\ Enter(r)
  /\ conn' = [conn EXCEPT ![r] = NoConn]
  /\ attempts' = [attempts EXCEPT ![r] = 1]
  /\ resp' = [resp EXCEPT ![r] = Resp(500, "Could not connect to the database", <<>>)]
  /\ exc' = [exc EXCEPT ![r] = ""]
  /\ pc' = [pc EXCEPT ![r] = "over"]
  /\ UNCHANGED <<app, extras_loaded, conn_vars, store_vars, pure_vars>>

\* conn = get_db_connection(): evaluating connect's arguments raises AttributeError,
\* which except psycopg2.OperationalError does not catch and decorated_function
\* does not either (the call stands before its try)
AcquireRaises(r) ==
  /\ Callable(r)
  /\ CachedConn(r) = NoConn
  /\ ConnectArgsRaise
  /\ Enter(r)
  /\ conn' = [conn EXCEPT ![r] = NoConn]
  /\ attempts' = [attempts EXCEPT ![r] = 0]
  /\ resp' = [resp EXCEPT ![r] = NoResp]
  /\ exc' = [exc EXCEPT ![r] = "AttributeError"]
  /\ pc' = [pc EXCEPT ![r] = "over"]
  /\ UNCHANGED <<app, extras_loaded, conn_vars, store_vars, pure_vars>>

\* cursor = conn.cursor(), before the try: a closed connection raises InterfaceError
MakeCursor(r) ==
  /\ pc[r] = "acquired"
  /\ IF conn_state[conn[r]] = "open"
     THEN /\ pc' = [pc EXCEPT ![r] = "work"]
          /\ exc' = exc
     ELSE /\ pc' = [pc EXCEPT ![r] = "over"]
          /\ exc' = [exc EXCEPT ![r] = "InterfaceError"]
  /\ UNCHANGED <<app, extras_loaded, conn, conn_vars, store_vars, handler, args, response,
                 resp, work_raised, issued, commits, commit_ok, rollbacks, attempts,
                 pure_vars>>

\* response = f(cursor, *args, **kwargs)
RunWork(r) ==
  /\ pc[r] = "work"
  /\ \E o \in Outcomes \cup EditOutcomes(r) :
       /\ handler' = [handler EXCEPT ![r] = o.h]
       /\ args' = [args EXCEPT ![r] = o.args]
       /\ issued' = [issued EXCEPT ![r] = o.res.writes]
       /\ tx' = [tx EXCEPT ![conn[r]] = @ \o o.res.writes]
       /\ post_seq' = post_seq + CountOp(o.res.writes, "ins_post")
       /\ comment_seq' = comment_seq + CountOp(o.res.writes, "ins_comment")
       /\ work_raised' = [work_raised EXCEPT ![r] = o.res.raised]
       /\ response' = [response EXCEPT ![r] = o.res.response]
       /\ exc' = [exc EXCEPT ![r] = o.res.exc]
       /\ pc' = [pc EXCEPT ![r] = IF o.res.raised THEN AfterRaise
                                  ELSE AfterReturn(o.res.response)]
  /\ UNCHANGED <<app, extras_loaded, conn, g, conn_state, opened_by, opened, closes,
                 posts, comments, resp, commits, commit_ok, rollbacks, attempts,
                 pure_vars>>

\* conn.commit() returns: the pending statements are committed; return response
CommitOk(r) ==
  /\ pc[r] = "commit"
  /\ commits' = [commits EXCEPT ![r] = @ + 1]
  /\ commit_ok' = [commit_ok EXCEPT ![r] = TRUE]
  /\ posts' = CommitPosts(posts, tx[conn[r]])
  /\ comments' = CommitComments(comments, tx[conn[r]])
  /\ tx' = [tx EXCEPT ![conn[r]] = <<>>]
  /\ resp' = [resp EXCEPT ![r] = Returned(r)]
  /\ exc' = [exc EXCEPT ![r] = ""]
  /\ pc' = [pc EXCEPT ![r] = "finally"]
  /\ UNCHANGED <<app, extras_loaded, conn, g, conn_state, opened_by, opened, closes,
                 post_seq, comment_seq, handler, args, response, work_raised, issued,
                 rollbacks, attempts, pure_vars>>

\* conn.commit() raises: nothing is committed, and the except branch is taken
CommitFails(r) ==
  /\ pc[r] = "commit"
  /\ commits' = [commits EXCEPT ![r] = @ + 1]
  /\ exc' = [exc EXCEPT ![r] = "OperationalError"]
  /\ pc' = [pc EXCEPT ![r] = "rollback"]
  /\ UNCHANGED <<app, extras_loaded, conn, conn_vars, store_vars, handler, args, response,
                 resp, work_raised, issued, commit_ok, rollbacks, attempts, pure_vars>>

\* conn.rollback() returns; return jsonify({"error": str(e)}), 500
RollbackOk(r) ==
  /\ pc[r] = "rollback"
  /\ rollbacks' = [rollbacks EXCEPT ![r] = @ + 1]
  /\ tx' = Rollback(tx, conn[r])
  /\ resp' = [resp EXCEPT ![r] = Resp(500, exc[r], <<>>)]
  /\ exc' = [exc EXCEPT ![r] = ""]
  /\ pc' = [pc EXCEPT ![r] = "finally"]
  /\ UNCHANGED <<app, extras_loaded, conn, g, conn_state, opened_by, opened, closes,
                 store_vars, handler, args, response, work_raised, issued, commits,
                 commit_ok, attempts, pure_vars>>

\* conn.rollback() raises inside the except branch: the new exception is in flight
RollbackFails(r) ==
  /\ pc[r] = "rollback"
  /\ rollbacks' = [rollbacks EXCEPT ![r] = @ + 1]
  /\ exc' = [exc EXCEPT ![r] = "InterfaceError"]
  /\ pc' = [pc EXCEPT ![r] = "finally"]
  /\ UNCHANGED <<app, extras_loaded, conn, conn_vars, store_vars, handler, args, response,
                 resp, work_raised, issued, commits, commit_ok, attempts, pure_vars>>

\* finally: cursor.close(); conn.close(). The store drops what the connection had
\* not committed. g.conn keeps the closed handle. Then the pending return or raise.
Finally(r) ==
  /\ pc[r] = "finally"
  /\ closes' = [closes EXCEPT ![r] = @ + 1]
  /\ conn_state' = [conn_state EXCEPT ![conn[r]] = Closed]
  /\ tx' = [tx EXCEPT ![conn[r]] = <<>>]
  /\ pc' = [pc EXCEPT ![r] = "over"]
  /\ UNCHANGED <<app, extras_loaded, conn, g, opened_by, opened, store_vars,
                 handler, args, response, resp, exc, work_raised, issued, commits, commit_ok,
                 rollbacks, attempts, pure_vars>>

\* The application context is popped. reddit: close_db_connection pops g.conn and
\* closes it when there is one. venmo registers no teardown: g is dropped. The last
\* call's frame is gone with the request.
Teardown(r) ==
  /\ Callable(r)
  /\ g' = [g EXCEPT ![r] = NoConn]
  /\ IF app = "reddit" /\ g[r] # NoConn
     THEN /\ closes' = [closes EXCEPT ![r] = @ + 1]
          /\ conn_state' = [conn_state EXCEPT ![g[r]] = Closed]
          /\ tx' = [tx EXCEPT ![g[r]] = <<>>]
     ELSE UNCHANGED <<closes, conn_state, tx>>
  /\ pc' = [pc EXCEPT ![r] = "done"]
  /\ FreshFrame(r)
  /\ conn' = [conn EXCEPT ![r] = NoConn]
  /\ attempts' = [attempts EXCEPT ![r] = 0]
  /\ resp' = [resp EXCEPT ![r] = NoResp]
  /\ exc' = [exc EXCEPT ![r] =
               IF app = "reddit" /\ g[r] # NoConn /\ CloseRaises(conn_state[g[r]])
               THEN "InterfaceError" ELSE ""]
  /\ UNCHANGED <<app, extras_loaded, opened_by, opened, store_vars, pure_vars>>

NextSession ==
  \E r \in Reqs :
    \/ AcquireCached(r)
    \/ AcquireConnect(r)
    \/ AcquireFails(r)
    \/ AcquireRaises(r)
    \/ MakeCursor(r)
    \/ RunWork(r)
    \/ CommitOk(r)
    \/ CommitFails(r)
    \/ RollbackOk(r)
    \/ RollbackFails(r)
    \/ Finally(r)
    \/ Teardown(r)

\* ------------------------------------------------- specifications
\* The services under concurrent requests
Init == InitSession /\ IdleAgg /\ IdlePage
Next == NextSession
Spec == Init /\ [][Next]_vars

\* The aggregation loop on every join result within the bounds
InitAggSpec == IdleSession /\ InitAgg /\ IdlePage
SpecAgg == InitAggSpec /\ [][NextAgg]_vars

\* get_users on every query string within the bounds
IdleVenmo == InitSession /\ app = "venmo" /\ extras_loaded
InitPageSpec == IdleVenmo /\ IdleAgg /\ InitPage
SpecPage == InitPageSpec /\ [][NextPage]_vars

\* ------------------------------------------------- helpers of the properties
\* The call of request r is over: decorated_function returned or raised
CallOver(r) == pc[r] = "over"
InCall(r) == pc[r] \in {"acquired", "work", "commit", "rollback", "finally"}

\* Every write of the sequence t is in the committed relations (an edit's text may
\* have been replaced by another request's committed edit of that comment) / none is
AllCommitted(t) ==
  \A i \in DOMAIN t :
    /\ t[i].op = "ins_post" => t[i].row \in posts
    /\ t[i].op = "ins_comment" =>
         \E c \in comments : c.id = t[i].row.id /\ c.post_id = t[i].row.post_id
    /\ t[i].op = "upd_comment" =>
         \E c \in comments :
           /\ c.id = t[i].row.id /\ c.post_id = t[i].row.post_id
           /\ c.text \in {EditText(q) : q \in Reqs}
NoneCommitted(t) ==
  \A i \in DOMAIN t :
    /\ t[i].op = "ins_post" => t[i].row \notin posts
    /\ t[i].op = "ins_comment" => \A c \in comments : c.id # t[i].row.id
    /\ t[i].op = "upd_comment" => t[i].row \notin comments

\* The rows the aggregation run worked on
AggInput ==
  IF agg_out.h = "get_post" THEN WherePostId(agg_rows, agg_out.post_id) ELSE agg_rows
ParentIds(rows) == {rows[i].pid : i \in DOMAIN rows}
ChildRowsOf(rows, p) == {i \in DOMAIN rows : rows[i].pid = p /\ rows[i].cid # NULL}

\* The elements of a set of integers in ascending order
RECURSIVE SortedIds(_)
SortedIds(S) ==
  IF S = {} THEN <<>>
  ELSE LET m == CHOOSE x \in S : \A y \in S : x <= y
       IN  <<m>> \o SortedIds(S \ {m})

\* The parent ids of rows in the order of their first row
FirstSeen(rows) ==
  LET first == {i \in DOMAIN rows : \A j \in 1..(i - 1) : rows[j].pid # rows[i].pid}
      order == SortedIds(first)
  IN  [k \in 1..Len(order) |-> rows[order[k]].pid]

\* The children (id, text) carried by the rows of parent p, in row order
ChildrenInOrder(rows, p) ==
  LET mine == SelectSeq(rows, LAMBDA row : row.pid = p /\ row.cid # NULL)
  IN  [k \in 1..Len(mine) |-> [id |-> mine[k].cid, text |-> mine[k].text]]

RECURSIVE IsSubseq(_, _)
IsSubseq(s, t) ==
  IF s = <<>> THEN TRUE
  ELSE IF t = <<>> THEN FALSE
  ELSE IF Head(s) = Head(t) THEN IsSubseq(Tail(s), Tail(t))
  ELSE IsSubseq(s, Tail(t))

\* ------------------------------------------------- C1
\* C1: a unit of work that executed writes and then raised leaves none of those
\* writes in the committed relations, during the call and after the wrapper is over.
C1_RolledBackWritesAbsent ==
  \A r \in Reqs : work_raised[r] => NoneCommitted(issued[r])

\* A call is over whose work executed a write and raised, and was rolled back
C1_Witness ==
  \E r \in Reqs :
    /\ CallOver(r) /\ work_raised[r] /\ issued[r] # <<>>
    /\ rollbacks[r] = 1 /\ resp[r].status = 500

\* ------------------------------------------------- C2
\* C2 as stated: when the work returned normally the wrapper committed once, never
\* rolled back, returned the work's value, and the work's writes are committed.
C2_Original ==
  \A r \in Reqs :
    (CallOver(r) /\ handler[r] # "" /\ ~work_raised[r]) =>
      /\ commits[r] = 1 /\ rollbacks[r] = 0
      /\ resp[r] = response[r]
      /\ AllCommitted(issued[r])

\* C2 as amended: when the work returned normally the wrapper called commit once;
\* if the commit returned it never rolled back, returned the work's value and the
\* work's writes are committed; if the commit raised it rolled back once and the
\* work's value is not what it returned.
C2_NormalReturnCommits ==
  \A r \in Reqs :
    (CallOver(r) /\ handler[r] # "" /\ ~work_raised[r]) =>
      /\ commits[r] = 1
      /\ commit_ok[r] =>
           /\ rollbacks[r] = 0 /\ exc[r] = ""
           /\ resp[r] = response[r]
           /\ AllCommitted(issued[r])
      /\ ~commit_ok[r] =>
           /\ rollbacks[r] = 1
           /\ resp[r] # response[r]

\* A call is over whose work inserted a post and returned 201, committed
C2_Witness ==
  \E r \in Reqs :
    /\ CallOver(r) /\ handler[r] = "create_post" /\ ~work_raised[r]
    /\ commit_ok[r] /\ issued[r] # <<>> /\ resp[r].status = 201

\* ------------------------------------------------- C3
\* C3: over a request's lifetime (decorator plus teardown) close is invoked exactly
\* once for the connection it opened: closes equal connections opened.
C3_ReleaseExactlyOnce ==
  \A r \in Reqs :
    (pc[r] = "done" /\ opened[r] > 0) => (closes[r] = 1 /\ closes[r] = opened[r])

\* ------------------------------------------------- C4
\* C4: a call that ended without a session did not raise, returned a 500 with an
\* error field, ran no work, called no commit, no rollback and no close, and made
\* exactly one connection attempt.
C4_ConnectFailureIs500 ==
  \A r \in Reqs :
    (CallOver(r) /\ conn[r] = NoConn) =>
      /\ exc[r] = ""
      /\ resp[r].status = 500 /\ resp[r].error # ""
      /\ handler[r] = "" /\ commits[r] = 0 /\ rollbacks[r] = 0 /\ closes[r] = 0
      /\ attempts[r] = 1

\* ------------------------------------------------- C5
\* C5: once the session is acquired no failure leaves the wrapper: the call ends
\* with no exception, and a failure in it gives a 500 after exactly one rollback.
C5_NoFailurePropagates ==
  \A r \in Reqs :
    (CallOver(r) /\ conn[r] # NoConn) =>
      /\ exc[r] = ""
      /\ (work_raised[r] \/ ~commit_ok[r]) =>
           (resp[r].status = 500 /\ rollbacks[r] = 1)

\* ------------------------------------------------- C6
\* C6: the session get_db_connection returns is open.
C6_AcquiredSessionOpen ==
  \A r \in Reqs : pc[r] = "acquired" => conn_state[conn[r]] = "open"

\* ------------------------------------------------- C7
\* C7: the handle a request caches or works on is one it opened itself, no handle is
\* cached by two requests, and a request has at most one open connection.
C7_SessionsPrivate ==
  \A r \in Reqs :
    /\ g[r] # NoConn => opened_by[g[r]] = r
    /\ InCall(r) => opened_by[conn[r]] = r
    /\ \A q \in Reqs \ {r} : g[r] # NoConn => g[r] # g[q]
    /\ Cardinality({c \in Conns : opened_by[c] = r /\ conn_state[c] = "open"}) <= 1

\* Two requests are inside their units of work on two open connections
C7_Witness ==
  \E r, q \in Reqs :
    /\ r # q /\ pc[r] = "commit" /\ pc[q] = "commit"
    /\ conn[r] # conn[q]
    /\ conn_state[conn[r]] = "open" /\ conn_state[conn[q]] = "open"
    /\ tx[conn[r]] # <<>> /\ tx[conn[q]] # <<>>

\* ------------------------------------------------- C8
\* C8: the aggregation yields one parent per distinct parent id, and each parent's
\* comments are as many as the rows of that parent with a non-null child id.
C8_AggregationCounts ==
  agg_out.resp.status = 200 =>
    LET out == agg_out.resp.body
    IN  /\ Len(out) = Cardinality(ParentIds(AggInput))
        /\ \A i \in DOMAIN out :
             Len(out[i].comments) = Cardinality(ChildRowsOf(AggInput, out[i].id))

\* ------------------------------------------------- C9
\* C9: parents come out in the order of their first row, and each parent's comments
\* in the order of that parent's rows: no sorting, no reordering.
C9_OrderIsRowOrder ==
  agg_out.resp.status = 200 =>
    LET out == agg_out.resp.body
    IN  /\ [i \in 1..Len(out) |-> out[i].id] = FirstSeen(AggInput)
        /\ \A i \in DOMAIN out :
             IsSubseq(out[i].comments, ChildrenInOrder(AggInput, out[i].id))

\* Two parents and two comments came out against their id order
C9_Witness ==
  /\ agg_out.h = "get_all_post" /\ agg_out.resp.status = 200
  /\ LET out == agg_out.resp.body
     IN  /\ Len(out) = 2 /\ out[1].id > out[2].id
         /\ Len(out[2].comments) = 2
         /\ out[2].comments[1].id > out[2].comments[2].id

\* ------------------------------------------------- C10
\* C10 as stated: on no rows get_post answers 404 and get_all_post answers success
\* with an empty collection.
C10_Original ==
  (agg_out.h # "none" /\ AggInput = <<>>) =>
    /\ agg_out.h = "get_post" => agg_out.resp.status = 404
    /\ agg_out.h = "get_all_post" =>
         (agg_out.resp.status = 200 /\ agg_out.resp.body = <<>>)

\* C10 as amended: on no rows get_post and get_all_post both answer 404 with an
\* error field and no posts.
C10_NoRowsIs404 ==
  (agg_out.h # "none" /\ AggInput = <<>>) =>
    /\ agg_out.resp.status = 404
    /\ agg_out.resp.error # ""
    /\ agg_out.resp.body = <<>>

\* get_all_post ran on an empty join result
C10_Witness ==
  agg_out.h = "get_all_post" /\ agg_rows = <<>> /\ agg_out.resp.status = 404

\* ------------------------------------------------- C11
\* The parsed query parameters of the run, and whether get_users accepts them
PageSizeIn == IntArg(page_in.size, default_page_size)
PageNumberIn == IntArg(page_in.number, default_page_number)
PageAccepted ==
  /\ PageSizeIn.ok /\ PageNumberIn.ok
  /\ PageSizeIn.val > 0 /\ PageNumberIn.val > 0

\* C11: a pageSize or pageNumber that is no number or parses to a value <= 0 is
\* answered 400 with no statement handed to the store; otherwise the first
\* statement is the page query with limit = pageSize and
\* offset = (pageNumber - 1) * pageSize, so (5,1) gives (5,0) and (5,3) gives (5,10).
C11_PageQuery ==
  page_out.ran =>
    IF ~PageAccepted
    THEN /\ ~page_out.res.raised
         /\ page_out.res.response.status = 400
         /\ page_out.res.response.error # ""
         /\ page_out.stmts = <<>>
    ELSE /\ page_out.stmts # <<>>
         /\ page_out.stmts[1].limit = PageSizeIn.val
         /\ page_out.stmts[1].offset = (PageNumberIn.val - 1) * PageSizeIn.val
         /\ (PageSizeIn.val = 5 /\ PageNumberIn.val = 1) =>
              (page_out.stmts[1].limit = 5 /\ page_out.stmts[1].offset = 0)
         /\ (PageSizeIn.val = 5 /\ PageNumberIn.val = 3) =>
              (page_out.stmts[1].limit = 5 /\ page_out.stmts[1].offset = 10)

\* get_users ran on pageSize=5, pageNumber=3 and queried LIMIT 5 OFFSET 10
C11_Witness ==
  /\ page_out.ran
  /\ page_in.size.text = <<"5">> /\ page_in.number.text = <<"3">>
  /\ page_out.stmts # <<>>
  /\ page_out.stmts[1].limit = 5 /\ page_out.stmts[1].offset = 10

\* ------------------------------------------------- C12
\* The handlers that write to the store
MutatingHandlers == {"create_post", "post_comment", "edit_comment"}

\* C12: a mutating handler run on a payload whose required field is missing or
\* empty returns (it does not raise) a 400 with an error field, and has executed
\* no statement.
C12_InvalidPayloadIs400 ==
  \A r \in Reqs :
    (handler[r] \in MutatingHandlers /\ args[r].fields \in {"missing", "empty"}) =>
      /\ ~work_raised[r]
      /\ response[r].status = 400
      /\ response[r].error # ""
      /\ issued[r] = <<>>

\* ------------------------------------------------- C13
\* C13: delete_post does not raise; it answers 404 having changed nothing, or it
\* answers success having executed the deletion of the post it was given, and once
\* the call is over with that deletion committed no post has this id.
C13_DeleteRemovesPost ==
  \A r \in Reqs :
    handler[r] = "delete_post" =>
      /\ ~work_raised[r]
      /\ response[r].status \in {200, 404}
      /\ response[r].status = 404 => issued[r] = <<>>
      /\ response[r].status = 200 =>
           /\ issued[r] # <<>>
           /\ issued[r][1].op = "del_post"
           /\ issued[r][1].row.id = args[r].post_id
           /\ (CallOver(r) /\ commit_ok[r]) =>
                \A p \in posts : p.id # args[r].post_id

\* ------------------------------------------------- C14
\* C14: when the application context of a request is popped and the request holds
\* no connection, nothing is closed and nothing changes; when it holds a connection
\* that is closed already, closing it again changes no connection's state, no
\* pending statement and no relation, and raises nothing.
C14_ReleaseIdempotent ==
  [][\A r \in Reqs :
       (Callable(r) /\ pc'[r] = "done") =>
         /\ g[r] = NoConn =>
              /\ closes' = closes
              /\ conn_state' = conn_state /\ tx' = tx
              /\ UNCHANGED store_vars
              /\ exc'[r] = ""
         /\ (g[r] # NoConn /\ conn_state[g[r]] = "closed") =>
              /\ conn_state' = conn_state /\ tx' = tx
              /\ UNCHANGED store_vars
              /\ exc'[r] = ""]_vars

\* One request was torn down after its decorated call had closed its connection
\* (two close calls on it), another without ever having acquired one
C14_Witness ==
  \E r, q \in Reqs :
    /\ pc[r] = "done" /\ opened[r] = 1 /\ closes[r] = 2 /\ exc[r] = ""
    /\ \E c \in Conns : opened_by[c] = r /\ conn_state[c] = "closed"
    /\ pc[q] = "done" /\ opened[q] = 0 /\ closes[q] = 0 /\ exc[q] = ""

\* ------------------------------------------------- C15
\* C15: get_users on an accepted page request, with a store that does not fail,
\* returns 200 after the page query and the count query, with a pagination
\* envelope holding the parsed pageNumber and pageSize.
C15_ValidPageIs200 ==
  (page_out.ran /\ PageAccepted /\ page_in.fail = "none") =>
    /\ ~page_out.res.raised
    /\ page_out.res.response.status = 200
    /\ Len(page_out.stmts) = 2
    /\ page_out.res.response.body.pagination.pageNumber = PageNumberIn.val
    /\ page_out.res.response.body.pagination.pageSize = PageSizeIn.val

\* ------------------------------------------------- C16
\* C16: the steps by which a failed unit of work is undone (its rollback, and the
\* close that follows) leave the committed relations as they are, and leave the
\* pending statements and the state of every other connection as they are: what
\* an earlier unit committed stays, and only the failed unit's statements go.
C16_RollbackOwnOnly ==
  [][\A r \in Reqs :
       (/\ pc[r] = "rollback" \/ (pc[r] = "finally" /\ ~commit_ok[r])
        /\ pc'[r] # pc[r]) =>
         /\ posts' = posts /\ comments' = comments
         /\ \A c \in Conns \ {conn[r]} :
              tx'[c] = tx[c] /\ conn_state'[c] = conn_state[c]]_vars

\* One unit of work committed a write and its call is over; another executed a
\* write, raised and was rolled back; the first one's write is in the store
C16_Witness ==
  \E r, q \in Reqs :
    /\ r # q
    /\ CallOver(q) /\ commit_ok[q] /\ issued[q] # <<>> /\ AllCommitted(issued[q])
    /\ CallOver(r) /\ work_raised[r] /\ issued[r] # <<>> /\ rollbacks[r] = 1
    /\ NoneCommitted(issued[r])

\* ------------------------------------------------- C17
\* The work of request r returned an error response by a normal return
ReturnedError(r) ==
  handler[r] # "" /\ ~work_raised[r] /\ response[r].status >= 400

\* C17 as stated: a call whose work returned an error response (400, 404, 500) by
\* a normal return committed once and never rolled back, and what the work had
\* executed is committed.
C17_Original ==
  \A r \in Reqs :
    (CallOver(r) /\ ReturnedError(r)) =>
      /\ commits[r] = 1 /\ rollbacks[r] = 0
      /\ AllCommitted(issued[r])

\* C17 as amended: a call whose work returned an error response by a normal return
\* called commit once, whatever the status; when that commit returned there was
\* no rollback, the error response is what the wrapper returned and what the work
\* had executed is committed; there was a rollback only when the commit raised.
C17_ErrorReturnCommits ==
  \A r \in Reqs :
    (CallOver(r) /\ ReturnedError(r)) =>
      /\ commits[r] = 1
      /\ commit_ok[r] =>
           /\ rollbacks[r] = 0
           /\ resp[r] = response[r]
           /\ AllCommitted(issued[r])
      /\ rollbacks[r] > 0 => ~commit_ok[r]

\* create_post executed its INSERT, got no RETURNING row, returned 500 by a normal
\* return, and the wrapper committed the INSERT and returned the 500
C17_Witness ==
  \E r \in Reqs :
    /\ CallOver(r) /\ handler[r] = "create_post" /\ args[r].fields = "ok"
    /\ ~work_raised[r] /\ response[r].status = 500
    /\ issued[r] # <<>> /\ AllCommitted(issued[r])
    /\ commits[r] = 1 /\ commit_ok[r] /\ rollbacks[r] = 0 /\ resp[r].status = 500

\* ------------------------------------------------- C18
\* The comments the UPDATE of request r's edit_comment is aimed at
EditTargets(r) ==
  {c \in comments : c.post_id = args[r].post_id /\ c.id = args[r].comments_id}

\* C18: in a call of edit_comment, (1) the work answers 404 exactly when no comment
\* has the requested (post_id, id) pair, and has then executed no write; (2) the
\* commit puts the new text on the comment with that pair and leaves every other
\* comment, every other field and the number of comments as they are, or leaves
\* all comments as they are when nothing matched; (3) no other step of the call
\* changes a comment, and no step changes a post.
C18_EditFrame ==
  [][\A r \in Reqs :
       /\ (/\ pc[r] = "work" /\ pc'[r] # "work" /\ handler'[r] = "edit_comment"
           /\ args'[r].fields = "ok" /\ ~work_raised'[r]) =>
            /\ (response'[r].status = 404) <=>
                 ~\E c \in comments : /\ c.post_id = args'[r].post_id
                                      /\ c.id = args'[r].comments_id
            /\ response'[r].status = 404 => issued'[r] = <<>>
            /\ posts' = posts /\ comments' = comments
       /\ (handler[r] = "edit_comment" /\ InCall(r) /\ pc'[r] # pc[r]) =>
            /\ posts' = posts
            /\ IF pc[r] = "commit" /\ pc'[r] = "finally" /\ issued[r] # <<>>
               THEN /\ \A c \in comments \ EditTargets(r) : c \in comments'
                    /\ \A c \in EditTargets(r) :
                         [c EXCEPT !.text = EditText(r)] \in comments'
                    /\ Cardinality(comments') = Cardinality(comments)
                    /\ Cardinality(EditTargets(r)) = 1
               ELSE comments' = comments]_vars

\* An edit was committed on one of two comments of a post: the edited one has the
\* new text, the other one the text it was inserted with
C18_Witness ==
  \E r \in Reqs :
    /\ pc[r] = "finally" /\ handler[r] = "edit_comment" /\ commit_ok[r]
    /\ issued[r] # <<>>
    /\ \E c, d \in comments :
         /\ c.post_id = args[r].post_id /\ c.id = args[r].comments_id
         /\ c.text = EditText(r)
         /\ d.post_id = c.post_id /\ d.id # c.id /\ d.text = "hi"

\* ------------------------------------------------- C19
\* The row positions [offset, offset + limit) a page query asks for
WindowOf(limit, offset) == offset .. (offset + limit - 1)

\* C19: the page query of an accepted request has an offset >= 0 that is a
\* multiple of pageSize, and the query of the next page of the same size has
\* offset + pageSize as its offset: the two windows share no row position and no
\* position lies between them.
C19_PagesTile ==
  (page_out.ran /\ PageAccepted) =>
    LET q    == page_out.stmts[1]
        next == PageOffset(PageSizeIn.val, PageNumberIn.val + 1)
    IN  /\ q.offset >= 0
        /\ q.offset % PageSizeIn.val = 0
        /\ next = q.offset + PageSizeIn.val
        /\ WindowOf(q.limit, q.offset) \cap WindowOf(q.limit, next) = {}
        /\ \A i \in q.offset .. (next + q.limit - 1) :
             i \in WindowOf(q.limit, q.offset) \cup WindowOf(q.limit, next)

\* get_users ran on pageSize=3, pageNumber=5 and asked for the rows from 12 on
C19_Witness ==
  /\ page_out.ran /\ PageAccepted
  /\ PageSizeIn.val = 3 /\ PageNumberIn.val = 5
  /\ page_out.stmts[1].offset = 12 /\ page_out.stmts[1].limit = 3

====
